---------------------------- MODULE Spec2Model ----------------------------
(***************************************************************************)
(* A model of vmcheck (src/vmcheck/vmcheck/main.c): a kernel driver whose  *)
(* DriverEntry pins the thread to one processor, raises the IRQL, masks    *)
(* interrupts, runs three timing probes around CPUID (RDTSC, the TSC MSR   *)
(* and the APERF MSR), restores the context and prints the results.        *)
(*                                                                         *)
(* DWORD64 values are modelled at their full width: a value is a sequence  *)
(* of four 16-bit limbs, least significant first, and the arithmetic below *)
(* wraps modulo 2^64 exactly as the unsigned C arithmetic does.  The same  *)
(* operators applied to six limbs give the 96-bit arithmetic in which the  *)
(* properties state the mathematically exact values.                       *)
(***************************************************************************)
EXTENDS Integers, Sequences, FiniteSets, TLC

(***************************************************************************)
(* Fixed-width unsigned arithmetic on limb sequences.                      *)
(***************************************************************************)
Base == 2^16

U64Limbs == 64 \div 16

WideLimbs == U64Limbs + 2

\* The limb sequence of width n holding the natural number x < 2^31.
FromNat(x, n) ==
    [k \in 1..n |-> IF k = 1 THEN x % Base ELSE IF k = 2 THEN x \div Base ELSE 0]

U64(x) == FromNat(x, U64Limbs)

Wide(x) == FromNat(x, WideLimbs)

\* Zero extension of a 64-bit value to the wide width.
Widen(a) == [k \in 1..WideLimbs |-> IF k <= Len(a) THEN a[k] ELSE 0]

\* Whether a wide value is below 2^64.
FitsU64(w) == \A k \in (U64Limbs + 1)..WideLimbs : w[k] = 0

RECURSIVE AddFrom(_, _, _, _)
AddFrom(a, b, k, carry) ==
    IF k > Len(a) THEN <<>>
    ELSE LET s == a[k] + b[k] + carry
         IN  <<s % Base>> \o AddFrom(a, b, k + 1, s \div Base)

\* a + b modulo Base^Len(a): the carry out of the top limb is dropped.
Add(a, b) == AddFrom(a, b, 1, 0)

RECURSIVE SubFrom(_, _, _, _)
SubFrom(a, b, k, borrow) ==
    IF k > Len(a) THEN <<>>
    ELSE LET s == a[k] - b[k] - borrow
         IN  <<(s + Base) % Base>> \o SubFrom(a, b, k + 1, IF s < 0 THEN 1 ELSE 0)

\* a - b modulo Base^Len(a).
Sub(a, b) == SubFrom(a, b, 1, 0)

RECURSIVE LessFrom(_, _, _)
LessFrom(a, b, k) ==
    IF k = 0 THEN FALSE
    ELSE IF a[k] # b[k] THEN a[k] < b[k]
    ELSE LessFrom(a, b, k - 1)

\* Unsigned comparison a < b.
Less(a, b) == LessFrom(a, b, Len(a))

IsZero(a) == \A k \in 1..Len(a) : a[k] = 0

RECURSIVE Mul(_, _)
\* x * a modulo Base^Len(a), for a natural number x < 2^31, by the binary
\* method: x * a = 2 * ((x \div 2) * a) + (x % 2) * a.
Mul(x, a) ==
    IF x = 0 THEN [k \in 1..Len(a) |-> 0]
    ELSE LET half == Mul(x \div 2, a)
         IN  IF IsZero(half) THEN (IF x % 2 = 1 THEN a ELSE half)
             ELSE IF x % 2 = 1 THEN Add(Add(half, half), a)
             ELSE Add(half, half)

\* Bit j (0 = least significant) of a.
Bit(a, j) == (a[(j \div 16) + 1] \div 2^(j % 16)) % 2

\* One step of restoring long division by b: the pair <<quotient,
\* remainder>> qr after one more bit of the dividend is brought down.
DivStep(qr, bit, b) ==
    LET one == FromNat(1, Len(b))
        r2  == IF bit = 1 THEN Add(Add(qr[2], qr[2]), one) ELSE Add(qr[2], qr[2])
        q2  == Add(qr[1], qr[1])
    IN  IF Less(r2, b) THEN <<q2, r2>> ELSE <<Add(q2, one), Sub(r2, b)>>

RECURSIVE DivRange(_, _, _, _, _)
\* The division steps for bits hi down to lo of a, most significant first,
\* continuing from the pair start.  The range is split in halves and the
\* upper half is settled before the lower half starts (its remainder is
\* below b, as after every step when b # 0), so that the 16 * Len(a) steps
\* nest only logarithmically deep.
DivRange(a, b, hi, lo, start) ==
    IF hi = lo THEN DivStep(start, Bit(a, hi), b)
    ELSE LET mid   == (hi + lo + 1) \div 2
             upper == DivRange(a, b, hi, mid, start)
         IN  IF Less(upper[2], b)
             THEN DivRange(a, b, mid - 1, lo, upper)
             ELSE upper

\* The unsigned quotient a / b, rounded down, for b # 0.  The quotient, the
\* remainder and b carry one limb more than a, so that 2 * r + 1 never wraps.
Div(a, b) ==
    LET n    == Len(a)
        zero == [k \in 1..(n + 1) |-> 0]
        bx   == [k \in 1..(n + 1) |-> IF k <= n THEN b[k] ELSE 0]
        qr   == DivRange(a, bx, 16 * n - 1, 0, <<zero, zero>>)
    IN  [k \in 1..n |-> qr[1][k]]

\* a << 32 in 64-bit arithmetic: the two low limbs move up, the two high
\* limbs are shifted out.
Shl32(a) == [k \in 1..Len(a) |-> IF k <= 2 THEN 0 ELSE a[k - 2]]

RECURSIVE Dec(_)
\* The 64-bit value written in decimal as groups of six digits, most
\* significant group first: Dec(<<2500, 000000>>) is 2500000000.
Dec(groups) ==
    IF groups = <<>> THEN U64(0)
    ELSE LET n     == Len(groups)
             upper == Dec(SubSeq(groups, 1, n - 1))
         IN  IF IsZero(upper) THEN U64(groups[n])
             ELSE Add(Mul(1000000, upper), U64(groups[n]))

(***************************************************************************)
(* Program constants.                                                      *)
(***************************************************************************)
\* for (int i = 0; i < 25000; i++)
Iterations == 25000

\* 100000 * total / calibration
Multiplier == 100000

\* testResults.RdtscFail = (calculated > 200)
RdtscThreshold == 200

\* testResults.TimestampFail = (calculated > 300)
TimestampThreshold == 300

\* testResults.AperfFail = (calculated < 10000)
AperfThreshold == 10000

(***************************************************************************)
(* The environment: the processors, the caller's context, the clocks.      *)
(***************************************************************************)
\* What KeQueryActiveProcessorCountEx(ALL_PROCESSOR_GROUPS) returns.
ActiveProcessorCount == 2

\* A GROUP_AFFINITY: Mask is the set of the processor numbers whose bit is
\* set.  The zero mask stands for "no system affinity": the thread runs at
\* its user affinity.
GroupAffinity(group, mask) == [Group |-> group, Mask |-> mask]

ZeroAffinity == GroupAffinity(0, {})

\* The contexts PerformTests may be entered from: the thread's system
\* affinity, the IRQL and the interrupt flag.
CallerAffinities == {ZeroAffinity, GroupAffinity(0, {0})}

CallerIrqls == {"PASSIVE_LEVEL", "APC_LEVEL"}

CallerContexts ==
    [affinity : CallerAffinities, irql : CallerIrqls, interrupts : BOOLEAN]

\* The context the system calls a DriverEntry in.
DriverEntryContext ==
    [affinity |-> ZeroAffinity, irql |-> "PASSIVE_LEVEL", interrupts |-> TRUE]

\* A run of the time stamp counter: its value at entry, the ticks that pass
\* during the calibration sleep of each ratio probe (1: RDTSC, 2: MSR), the
\* ticks one CPUID round trip takes in each, and one iteration (pauseAt, of
\* probe pauseProbe; probe 0: none) that takes pauseTicks longer, as when
\* the machine is stopped by an SMI or the guest is paused.
Trace(tsc0, sleep1, sleep2, cpuid1, cpuid2, pauseProbe, pauseAt, pauseTicks) ==
    [tsc0 |-> tsc0, sleep |-> <<sleep1, sleep2>>, cpuid |-> <<cpuid1, cpuid2>>,
     pauseProbe |-> pauseProbe, pauseAt |-> pauseAt, pauseTicks |-> pauseTicks]

\* 2.5 GHz: with it, calculated is the cost of one round trip in ticks.
OneSecond == Dec(<<2500, 0>>)

\* The largest total whose product with 100000 is below 2^64, less the
\* 25000 * 100 ticks of the other iterations.
PauseMax == Dec(<<184, 467438, 237095>>)

\* The traces of the whole-driver specification.
DriverTraces ==
    { Trace(U64(1000), OneSecond, OneSecond, U64(201), U64(300), 0, 0, U64(0)),
      Trace(U64(1000), U64(0), OneSecond, U64(201), U64(300), 0, 0, U64(0)),
      Trace(U64(1000), OneSecond, U64(0), U64(201), U64(300), 0, 0, U64(0)) }

\* The traces of the timing specification.
TimingTraces ==
    { Trace(U64(1000), OneSecond, OneSecond, U64(200), U64(300), 0, 0, U64(0)),
      Trace(U64(1000), OneSecond, OneSecond, U64(201), U64(301), 0, 0, U64(0)),
      Trace(U64(1000), OneSecond, OneSecond, U64(301), U64(201), 0, 0, U64(0)),
      Trace(U64(1000), Dec(<<3000, 7>>), Dec(<<2999, 999983>>), U64(123), U64(77),
            0, 0, U64(0)),
      Trace(U64(1000), OneSecond, OneSecond, U64(100), U64(100),
            1, 12345, PauseMax),
      Trace(U64(1000), OneSecond, OneSecond, U64(100), U64(100),
            1, 12345, Add(PauseMax, U64(1))),
      Trace(U64(1000), OneSecond, OneSecond, U64(100), U64(100),
            2, 24999, Add(PauseMax, U64(1))),
      Trace(Sub(U64(0), U64(1000)), OneSecond, OneSecond, U64(150), U64(350),
            0, 0, U64(0)),
      Trace(U64(1000), U64(0), OneSecond, U64(100), U64(100), 0, 0, U64(0)),
      Trace(U64(1000), OneSecond, U64(0), U64(100), U64(100), 0, 0, U64(0)) }

\* The raw values IA32_APERF may hold at the first read, and what it may
\* gain until the second read.
AperfFirst == {U64(0), Dec(<<4294, 967000>>), Sub(U64(0), U64(5))}

AperfGain ==
    {U64(0), U64(1), U64(9999), U64(10000), U64(15000),
     Dec(<<4294, 967296>>), Dec(<<4294, 967297>>)}

(***************************************************************************)
(* The state.                                                              *)
(***************************************************************************)
VARIABLES
    pc,                 \* where the thread is
    caller,             \* the context DriverEntry was entered from
    trace,              \* how the time stamp counter runs
    systemAffinity,     \* the thread's system group affinity
    irql,               \* the processor's IRQL
    interruptsEnabled,  \* the processor's interrupt flag
    tsc,                \* the time stamp counter
    tscWrapped,         \* whether the counter has wrapped past 2^64
    aperfReads,         \* the raw values read from IA32_APERF
    hwCalls,            \* clock reads, CPUIDs and sleeps made so far
    events,             \* the isolation calls, probes and result stores made
    testResults,        \* the global TestResults
    processorNumber,    \* PerformTests: processorNumber
    oldAffinity,        \* PerformTests: oldAffinity
    originalIrql,       \* PerformTests: originalIrql
    calibration,        \* RdtscTiming, TimestampTiming: calibration
    total,              \* RdtscTiming, TimestampTiming: total
    i,                  \* RdtscTiming, TimestampTiming: i
    log                 \* the lines given to DbgPrintEx

vars ==
    <<pc, caller, trace, systemAffinity, irql, interruptsEnabled, tsc,
      tscWrapped, aperfReads, hwCalls, events, testResults, processorNumber,
      oldAffinity, originalIrql, calibration, total, i, log>>

env == <<caller, trace>>

context == <<systemAffinity, irql, interruptsEnabled>>

clocks == <<tsc, tscWrapped, aperfReads, hwCalls>>

locals == <<processorNumber, oldAffinity, originalIrql>>

loop == <<calibration, total, i>>

\* Log(x, ...): one line of DbgPrintEx, the format x behind its prefix, and
\* the arguments.
Line(x, args) == [prefix |-> "[vmcheck] ", fmt |-> x, args |-> args]

LoadedLine == Line("Loaded. Build on %s.\n", <<"__DATE__">>)

FailedLine == Line("Failed to get processor number!\n", <<>>)

Verdict(fail) == IF fail THEN "fail" ELSE "ok"

\* A slip in the argument: the MSR probe's ratio in the RDTSC line.
RdtscLineOfTimestamp(r) ==
    Line("RDTSC with CPUID: %llu (%s)\n", <<r.TimestampCalculated, Verdict(r.RdtscFail)>>)

RdtscLine(r) ==
    Line("RDTSC with CPUID: %llu (%s)\n", <<r.RdtscCalculated, Verdict(r.RdtscFail)>>)

TimestampLine(r) ==
    Line("MSR TIMESTAMP with CPUID: %llu (%s)\n",
         <<r.TimestampCalculated, Verdict(r.TimestampFail)>>)

AperfLine(r) ==
    Line("MSR APERF with CPUID: %llu (%s)\n", <<r.AperfCalculated, Verdict(r.AperfFail)>>)

\* TestResults testResults; a global, so zero-initialized.
ZeroResults ==
    [RdtscCalculated |-> U64(0), RdtscFail |-> FALSE,
     TimestampCalculated |-> U64(0), TimestampFail |-> FALSE,
     AperfCalculated |-> U64(0), AperfFail |-> FALSE]

\* The state the image is loaded in, the thread at the position start.
InitAt(start, contexts, traces) ==
    /\ pc = start
    /\ caller \in contexts
    /\ trace \in traces
    /\ systemAffinity = caller.affinity
    /\ irql = caller.irql
    /\ interruptsEnabled = caller.interrupts
    /\ tsc = trace.tsc0
    /\ tscWrapped = FALSE
    /\ aperfReads = <<>>
    /\ hwCalls = [read |-> 0, cpuid |-> 0, sleep |-> 0]
    /\ events = <<>>
    /\ testResults = ZeroResults
    \* The locals hold nothing yet; none is read before it is written.
    /\ processorNumber = [Group |-> 0, Number |-> 0]
    /\ oldAffinity = ZeroAffinity
    /\ originalIrql = "PASSIVE_LEVEL"
    /\ calibration = U64(0)
    /\ total = U64(0)
    /\ i = 0
    /\ log = <<>>

Init == InitAt("DriverEntry", CallerContexts, DriverTraces)

(***************************************************************************)
(* The arithmetic of the probes, as the code writes it.                    *)
(***************************************************************************)
\* A slip in the order of the operations: 100000 * (total / calibration).
RatioDividedFirst(tot, cal) == Mul(Multiplier, Div(tot, cal))

\* DWORD64 calculated = 100000 * total / calibration;
Ratio(tot, cal) == Div(Mul(Multiplier, tot), cal)

\* A slip in the comparison: calculated >= 200.
RdtscFailedFromThreshold(calculated) == ~Less(calculated, U64(RdtscThreshold))

\* (calculated > 200)
RdtscFailed(calculated) == Less(U64(RdtscThreshold), calculated)

\* (calculated > 300)
TimestampFailed(calculated) == Less(U64(TimestampThreshold), calculated)

\* A slip in the comparison: calculated <= 10000.
AperfFailedUpToThreshold(calculated) == ~Less(U64(AperfThreshold), calculated)

\* (calculated < 10000)
AperfFailed(calculated) == Less(calculated, U64(AperfThreshold))

\* The read without its shift.
AperfReadUnshifted(raw) == raw

\* __readmsr(IA32_APERF_MSR) << 32
AperfRead(raw) == Shl32(raw)

\* The difference of the raw reads, the shifts forgotten.
AperfCalculatedFromRaw(first, second) == Sub(second, first)

\* DWORD64 calculated = end - start;
AperfCalculated(first, second) == Sub(AperfRead(second), AperfRead(first))

\* The ticks the CPUID of iteration k of ratio probe p takes.
CpuidTicks(p, k) ==
    IF trace.pauseProbe = p /\ trace.pauseAt = k
    THEN Add(trace.cpuid[p], trace.pauseTicks)
    ELSE trace.cpuid[p]

\* The counter moves on by ticks to the value after; it wraps at 2^64.
Tick(ticks, after) ==
    /\ after = Add(tsc, ticks)
    /\ tsc' = after
    /\ tscWrapped' = (tscWrapped \/ Less(after, tsc))

Called(name) == events' = Append(events, name)

Hw(reads, cpuids, sleeps) ==
    hwCalls' = [read  |-> hwCalls.read + reads,
                cpuid |-> hwCalls.cpuid + cpuids,
                sleep |-> hwCalls.sleep + sleeps]

(***************************************************************************)
(* DriverEntry and PerformTests.                                           *)
(***************************************************************************)
\* Log("Loaded. Build on %s.\n", __DATE__); then PerformTests is called.
DriverEntry ==
    /\ pc = "DriverEntry"
    /\ log' = Append(log, LoadedLine)
    /\ pc' = "PerformTests"
    /\ UNCHANGED <<env, context, clocks, events, testResults, locals, loop>>

\* A lookup that always names the first processor.
FirstProcessorNumber(index) == [Group |-> 0, Number |-> 0]

\* KeGetProcessorNumberFromIndex(numberOfProcessors - 1, &processorNumber):
\* the processors of one group are numbered by their index.
ProcessorNumberFromIndex(index) == [Group |-> 0, Number |-> index]

\* The lookup fails: one line is logged and PerformTests returns.
LookupFailed ==
    /\ pc = "PerformTests"
    /\ log' = Append(log, FailedLine)
    /\ pc' = "PrintResults"
    /\ UNCHANGED <<env, context, clocks, events, testResults, locals, loop>>

LookupSucceeded ==
    /\ pc = "PerformTests"
    /\ processorNumber' = ProcessorNumberFromIndex(ActiveProcessorCount - 1)
    /\ pc' = "KeSetSystemGroupAffinityThread"
    /\ UNCHANGED <<env, context, clocks, events, testResults, oldAffinity,
                   originalIrql, loop, log>>

\* affinity.Group = processorNumber.Group;
\* affinity.Mask = 1ULL << processorNumber.Number;
PinnedAffinity(number) == GroupAffinity(number.Group, {number.Number})

\* KeSetSystemGroupAffinityThread(&affinity, &oldAffinity): the previous
\* system affinity is handed back, zero when the thread had none.
SetAffinity ==
    /\ pc = "KeSetSystemGroupAffinityThread"
    /\ oldAffinity' = systemAffinity
    /\ systemAffinity' = PinnedAffinity(processorNumber)
    /\ Called("KeSetSystemGroupAffinityThread")
    /\ pc' = "KeRaiseIrql"
    /\ UNCHANGED <<env, irql, interruptsEnabled, clocks, testResults,
                   processorNumber, originalIrql, loop, log>>

\* KeRaiseIrql(HIGH_LEVEL, &originalIrql);
RaiseIrql ==
    /\ pc = "KeRaiseIrql"
    /\ originalIrql' = irql
    /\ irql' = "HIGH_LEVEL"
    /\ Called("KeRaiseIrql")
    /\ pc' = "_disable"
    /\ UNCHANGED <<env, systemAffinity, interruptsEnabled, clocks, testResults,
                   processorNumber, oldAffinity, loop, log>>

\* _disable();
DisableInterrupts ==
    /\ pc = "_disable"
    /\ interruptsEnabled' = FALSE
    /\ Called("_disable")
    /\ pc' = "RdtscTiming"
    /\ UNCHANGED <<env, systemAffinity, irql, clocks, testResults, locals,
                   loop, log>>

(***************************************************************************)
(* The ratio probes: RdtscTiming and TimestampTiming.                      *)
(***************************************************************************)
\* The first read, the sleep of one second, the second read:
\* calibration = (second read) - (first read); total = 0; i = 0.
Calibrate(p) ==
    \E after \in {Add(tsc, trace.sleep[p])} :
        /\ Tick(trace.sleep[p], after)
        /\ calibration' = Sub(after, tsc)
        /\ total' = U64(0)
        /\ i' = 0
        /\ Hw(2, 0, 1)

\* One pass of the loop: start = read; CPUID leaf 0; total += read - start.
Iterate(p) ==
    /\ i < Iterations
    /\ \E after \in {Add(tsc, CpuidTicks(p, i))} :
          /\ Tick(CpuidTicks(p, i), after)
          /\ total' = Add(total, Sub(after, tsc))
    /\ i' = i + 1
    /\ Hw(2, 1, 0)
    /\ UNCHANGED calibration

RdtscCalibrate ==
    /\ pc = "RdtscTiming"
    /\ Calibrate(1)
    /\ Called("RdtscTiming")
    /\ pc' = "RdtscLoop"
    /\ UNCHANGED <<env, context, aperfReads, testResults, locals, log>>

RdtscIterate ==
    /\ pc = "RdtscLoop"
    /\ Iterate(1)
    /\ UNCHANGED <<pc, env, context, aperfReads, events, testResults, locals, log>>

\* A guarded division: a zero calibration stores a zero ratio and goes on.
RdtscClassifyGuarded ==
    /\ pc = "RdtscLoop"
    /\ i = Iterations
    /\ testResults' =
         [testResults EXCEPT
            !.RdtscCalculated =
                IF IsZero(calibration) THEN U64(0) ELSE Ratio(total, calibration),
            !.RdtscFail =
                IF IsZero(calibration) THEN FALSE
                ELSE RdtscFailed(Ratio(total, calibration))]
    /\ Called("RdtscResult")
    /\ pc' = "TimestampTiming"
    /\ UNCHANGED <<env, context, clocks, locals, loop, log>>

\* The loop is over and calibration is not zero: the division, the stores.
RdtscClassify ==
    /\ pc = "RdtscLoop"
    /\ i = Iterations
    /\ ~IsZero(calibration)
    /\ testResults' =
         [testResults EXCEPT
            !.RdtscCalculated = Ratio(total, calibration),
            !.RdtscFail = RdtscFailed(Ratio(total, calibration))]
    /\ Called("RdtscResult")
    /\ pc' = "TimestampTiming"
    /\ UNCHANGED <<env, context, clocks, locals, loop, log>>

\* The loop is over and calibration is zero: the division raises the divide
\* error (#DE), which nothing in the driver handles; the thread goes no
\* further.
RdtscDivideError ==
    /\ pc = "RdtscLoop"
    /\ i = Iterations
    /\ IsZero(calibration)
    /\ pc' = "DivideError"
    /\ UNCHANGED <<env, context, clocks, events, testResults, locals, loop, log>>

TimestampCalibrate ==
    /\ pc = "TimestampTiming"
    /\ Calibrate(2)
    /\ Called("TimestampTiming")
    /\ pc' = "TimestampLoop"
    /\ UNCHANGED <<env, context, aperfReads, testResults, locals, log>>

TimestampIterate ==
    /\ pc = "TimestampLoop"
    /\ Iterate(2)
    /\ UNCHANGED <<pc, env, context, aperfReads, events, testResults, locals, log>>

TimestampClassify ==
    /\ pc = "TimestampLoop"
    /\ i = Iterations
    /\ ~IsZero(calibration)
    /\ testResults' =
         [testResults EXCEPT
            !.TimestampCalculated = Ratio(total, calibration),
            !.TimestampFail = TimestampFailed(Ratio(total, calibration))]
    /\ Called("TimestampResult")
    /\ pc' = "AperfTiming"
    /\ UNCHANGED <<env, context, clocks, locals, loop, log>>

TimestampDivideError ==
    /\ pc = "TimestampLoop"
    /\ i = Iterations
    /\ IsZero(calibration)
    /\ pc' = "DivideError"
    /\ UNCHANGED <<env, context, clocks, events, testResults, locals, loop, log>>

(***************************************************************************)
(* AperfTiming.                                                            *)
(***************************************************************************)
\* testResults.AperfCalculated = calculated;
\* testResults.AperfFail = (calculated < 10000);
AperfStore(calculated) ==
    testResults' = [testResults EXCEPT !.AperfCalculated = calculated,
                                       !.AperfFail = AperfFailed(calculated)]

\* start = read << 32; CPUID leaf 1; end = read << 32; the stores.
AperfTiming ==
    /\ pc = "AperfTiming"
    /\ \E first \in AperfFirst, gain \in AperfGain :
         LET second == Add(first, gain)
         IN  /\ aperfReads' = <<first, second>>
             /\ AperfStore(AperfCalculated(first, second))
    /\ Hw(2, 1, 0)
    /\ events' = events \o <<"AperfTiming", "AperfResult">>
    /\ pc' = "_enable"
    /\ UNCHANGED <<env, context, tsc, tscWrapped, locals, loop, log>>

(***************************************************************************)
(* The end of PerformTests, PrintResults, the return of DriverEntry.       *)
(***************************************************************************)
\* _enable();
EnableInterrupts ==
    /\ pc = "_enable"
    /\ interruptsEnabled' = TRUE
    /\ Called("_enable")
    /\ pc' = "KeLowerIrql"
    /\ UNCHANGED <<env, systemAffinity, irql, clocks, testResults, locals,
                   loop, log>>

\* A slip in what the IRQL is lowered to: KeLowerIrql(PASSIVE_LEVEL).
LowerIrqlToPassive ==
    /\ pc = "KeLowerIrql"
    /\ irql' = "PASSIVE_LEVEL"
    /\ Called("KeLowerIrql")
    /\ pc' = "KeRevertToUserGroupAffinityThread"
    /\ UNCHANGED <<env, systemAffinity, interruptsEnabled, clocks, testResults,
                   locals, loop, log>>

\* KeLowerIrql(originalIrql);
LowerIrql ==
    /\ pc = "KeLowerIrql"
    /\ irql' = originalIrql
    /\ Called("KeLowerIrql")
    /\ pc' = "KeRevertToUserGroupAffinityThread"
    /\ UNCHANGED <<env, systemAffinity, interruptsEnabled, clocks, testResults,
                   locals, loop, log>>

\* KeRevertToUserGroupAffinityThread(&oldAffinity): the affinity handed in
\* becomes the system affinity again; a zero mask reverts the thread to its
\* user affinity.
RevertAffinity ==
    /\ pc = "KeRevertToUserGroupAffinityThread"
    /\ systemAffinity' = IF oldAffinity.Mask = {} THEN ZeroAffinity ELSE oldAffinity
    /\ Called("KeRevertToUserGroupAffinityThread")
    /\ pc' = "PrintResults"
    /\ UNCHANGED <<env, irql, interruptsEnabled, clocks, testResults, locals,
                   loop, log>>

\* The three result lines; DriverEntry then returns STATUS_SUCCESS.
PrintResults ==
    /\ pc = "PrintResults"
    /\ log' = log \o <<RdtscLine(testResults), TimestampLine(testResults),
                       AperfLine(testResults)>>
    /\ pc' = "Returned"
    /\ UNCHANGED <<env, context, clocks, events, testResults, locals, loop>>

Next ==
    \/ DriverEntry
    \/ LookupFailed
    \/ LookupSucceeded
    \/ SetAffinity
    \/ RaiseIrql
    \/ DisableInterrupts
    \/ RdtscCalibrate
    \/ RdtscIterate
    \/ RdtscClassify
    \/ RdtscDivideError
    \/ TimestampCalibrate
    \/ TimestampIterate
    \/ TimestampClassify
    \/ TimestampDivideError
    \/ AperfTiming
    \/ EnableInterrupts
    \/ LowerIrql
    \/ RevertAffinity
    \/ PrintResults

\* The driver, entered from every caller context.
Spec == Init /\ [][Next]_vars

\* The driver, entered as the system enters a DriverEntry, over the traces
\* that exercise the arithmetic.
TimingInit ==
    InitAt("DriverEntry", {DriverEntryContext}, TimingTraces)

TimingSpec == TimingInit /\ [][Next]_vars

\* The two stores that end AperfTiming, taken alone and applied to every
\* value around the threshold.
ClassifyOffset == 100

ClassifyValues ==
    {U64(c) : c \in (AperfThreshold - ClassifyOffset)..(AperfThreshold + ClassifyOffset)}

ClassifyInit == InitAt("AperfStore", {DriverEntryContext}, DriverTraces)

AperfClassify ==
    /\ pc = "AperfStore"
    /\ \E calculated \in ClassifyValues : AperfStore(calculated)
    /\ pc' = "AperfStored"
    /\ UNCHANGED <<env, context, clocks, events, locals, loop, log>>

ClassifySpec == ClassifyInit /\ [][AperfClassify]_vars


(***************************************************************************)
(* What the formulas below speak of.                                       *)
(***************************************************************************)
Occurred(name) == \E k \in 1..Len(events) : events[k] = name

Count(names) == Cardinality({k \in 1..Len(events) : events[k] \in names})

PerformTestsReturned == pc \in {"PrintResults", "Returned"}

LookupHadFailed == \E k \in 1..Len(log) : log[k].fmt = FailedLine.fmt

Acquisitions == {"KeSetSystemGroupAffinityThread", "KeRaiseIrql", "_disable"}

Releases == {"_enable", "KeLowerIrql", "KeRevertToUserGroupAffinityThread"}

ResultFormats ==
    {"RDTSC with CPUID: %llu (%s)\n", "MSR TIMESTAMP with CPUID: %llu (%s)\n",
     "MSR APERF with CPUID: %llu (%s)\n"}

ResultLines == {k \in 1..Len(log) : log[k].fmt \in ResultFormats}

\* The three result lines as DbgPrintEx is to be given them, written out.
ExpectedResultLines ==
    << [fmt |-> "RDTSC with CPUID: %llu (%s)\n",
        args |-> <<testResults.RdtscCalculated,
                   IF testResults.RdtscFail THEN "fail" ELSE "ok">>],
       [fmt |-> "MSR TIMESTAMP with CPUID: %llu (%s)\n",
        args |-> <<testResults.TimestampCalculated,
                   IF testResults.TimestampFail THEN "fail" ELSE "ok">>],
       [fmt |-> "MSR APERF with CPUID: %llu (%s)\n",
        args |-> <<testResults.AperfCalculated,
                   IF testResults.AperfFail THEN "fail" ELSE "ok">>] >>

SameLines(lines, expected) ==
    /\ Len(lines) = Len(expected)
    /\ \A k \in 1..Len(expected) :
          /\ lines[k].prefix = "[vmcheck] "
          /\ lines[k].fmt = expected[k].fmt
          /\ lines[k].args = expected[k].args

\* The events of a run of PerformTests that goes through to its return.
FullOrder ==
    <<"KeSetSystemGroupAffinityThread", "KeRaiseIrql", "_disable",
      "RdtscTiming", "RdtscResult", "TimestampTiming", "TimestampResult",
      "AperfTiming", "AperfResult",
      "_enable", "KeLowerIrql", "KeRevertToUserGroupAffinityThread">>

IsPrefix(s, t) == Len(s) <= Len(t) /\ \A k \in 1..Len(s) : s[k] = t[k]

\* Pinned to the last processor, at HIGH_LEVEL, interrupts off.
Isolated ==
    /\ systemAffinity = [Group |-> 0, Mask |-> {ActiveProcessorCount - 1}]
    /\ irql = "HIGH_LEVEL"
    /\ ~interruptsEnabled

(***************************************************************************)
(* C1.                                                                     *)
(***************************************************************************)
\* C1, as the specification states it: once PerformTests has returned, on
\* the normal path or on the abort path, the affinity, the IRQL and the
\* interrupt flag are what they were before the call, whatever they were,
\* and as many isolation steps were released as were acquired.
C1_AllRestored ==
    PerformTestsReturned =>
        /\ systemAffinity = caller.affinity
        /\ irql = caller.irql
        /\ interruptsEnabled = caller.interrupts
        /\ Count(Releases) = Count(Acquisitions)

\* C1, amended: once PerformTests has returned, the affinity and the IRQL
\* are what they were before the call and as many isolation steps were
\* released as were acquired (three and three, or none on the abort path);
\* the interrupt flag is untouched on the abort path and set after a normal
\* completion, whatever it was before the call.
C1_RestoredButInterruptFlag ==
    PerformTestsReturned =>
        /\ systemAffinity = caller.affinity
        /\ irql = caller.irql
        /\ interruptsEnabled = (IF LookupHadFailed THEN caller.interrupts ELSE TRUE)
        /\ Count(Releases) = Count(Acquisitions)
        /\ Count(Acquisitions) = (IF LookupHadFailed THEN 0 ELSE 3)

\* A normal completion of a call made at APC_LEVEL, with a system affinity
\* and with interrupts off.
C1_Witness ==
    /\ pc = "Returned"
    /\ events = FullOrder
    /\ caller = [affinity |-> [Group |-> 0, Mask |-> {0}], irql |-> "APC_LEVEL",
                 interrupts |-> FALSE]
    /\ interruptsEnabled

(***************************************************************************)
(* C2.                                                                     *)
(***************************************************************************)
\* C2: in a run whose processor lookup fails, no isolation step is taken and
\* no probe runs, TestResults stays as it was, and the log receives exactly
\* one line about the failure and no result line.
C2_AbortLogsOnlyFailure ==
    (pc = "Returned" /\ LookupHadFailed) =>
        /\ events = <<>>
        /\ hwCalls = [read |-> 0, cpuid |-> 0, sleep |-> 0]
        /\ testResults = ZeroResults
        /\ Cardinality({k \in 1..Len(log) : log[k].fmt = FailedLine.fmt}) = 1
        /\ ResultLines = {}

C7_State ==
    pc = "DivideError" =>
        /\ IsZero(calibration)
        /\ i = Iterations
        /\ events # <<>>
        /\ events[Len(events)] \in {"RdtscTiming", "TimestampTiming"}
        /\ hwCalls.cpuid = Iterations * Count({"RdtscTiming", "TimestampTiming"})
        /\ events[Len(events)] = "RdtscTiming" => testResults = ZeroResults
        /\ events[Len(events)] = "TimestampTiming" =>
              /\ testResults.TimestampCalculated = U64(0)
              /\ ~testResults.TimestampFail
        /\ testResults.AperfCalculated = U64(0)
        /\ ~testResults.AperfFail
        /\ Count({"AperfTiming"} \cup Releases) = 0
        /\ Isolated

C7_Step ==
    /\ (pc \in {"RdtscLoop", "TimestampLoop"} /\ IsZero(calibration)) =>
          /\ pc' \in {pc, "DivideError"}
          /\ pc' = pc => i' = i + 1
          /\ pc' = "DivideError" => i = Iterations
          /\ UNCHANGED <<testResults, events, context, log>>
    /\ pc = "DivideError" => UNCHANGED vars

\* C7: a ratio probe whose calibration delta is zero still makes its 25000
\* iterations and then divides by zero; nothing guards the division and
\* nothing is stored in its place: the probe's value and verdict are never
\* written, and neither the later probes nor the enabling of interrupts, the
\* lowering of the IRQL and the reverting of the affinity are reached.
C7_ZeroCalibration == []C7_State /\ [][C7_Step]_vars

\* The second ratio probe has divided by zero after the first has stored
\* its result.
C7_Witness ==
    /\ pc = "DivideError"
    /\ events[Len(events)] = "TimestampTiming"
    /\ hwCalls.cpuid = 2 * Iterations
    /\ testResults.RdtscFail

(***************************************************************************)
(* C9.                                                                     *)
(***************************************************************************)
\* C9, as the specification states it: a run whose lookup succeeds has, when
\* it ends, made the nine steps in their order, affinity, IRQL, interrupts
\* off, the three probes each once with its result stored once, interrupts
\* on, IRQL, affinity.
C9_EveryRunMakesAllSteps ==
    (pc \in {"Returned", "DivideError"} /\ ~LookupHadFailed) => events = FullOrder

C9_State ==
    /\ IsPrefix(events, FullOrder)
    /\ (PerformTestsReturned /\ ~LookupHadFailed) => events = FullOrder
    /\ pc = "KeRaiseIrql" =>
          systemAffinity = [Group |-> 0, Mask |-> {ActiveProcessorCount - 1}]

C9_Step ==
    /\ hwCalls' # hwCalls => (Isolated /\ Isolated')
    /\ testResults' # testResults =>
          /\ Len(events') > Len(events)
          /\ events'[Len(events')] \in {"RdtscResult", "TimestampResult", "AperfResult"}

\* C9, amended: in a run whose lookup succeeds the steps occur in this order
\* as far as the run goes: affinity set to the one processor of index
\* count - 1, IRQL raised, interrupts off, the RDTSC probe, the MSR probe,
\* the APERF probe, interrupts on, IRQL lowered, affinity reverted.  Each
\* probe runs at most once and stores its result at most once, and exactly
\* once in a run in which PerformTests returns (a run stops at the division
\* of a probe whose calibration delta is zero).  Every clock read, CPUID and
\* sleep is made pinned, at the raised IRQL and with interrupts off.
C9_OrderAsFarAsTheRunGoes == []C9_State /\ [][C9_Step]_vars

\* A run that went through: two sleeps, 50001 CPUIDs, 100006 clock reads.
C9_Witness ==
    /\ pc = "Returned"
    /\ events = FullOrder
    /\ hwCalls = [read |-> 4 * Iterations + 6, cpuid |-> 2 * Iterations + 1,
                  sleep |-> 2]

(***************************************************************************)
(* C4.                                                                     *)
(***************************************************************************)
\* C4: of every value stored as calculated, the RDTSC probe is marked failed
\* exactly when it is above 200, the MSR probe exactly when it is above 300
\* and the APERF probe exactly when it is below 10000; 200 and 300
\* themselves pass, and the verdict is a function of the probe's own value.
C4_Thresholds ==
    /\ Occurred("RdtscResult") =>
          (testResults.RdtscFail <=> Less(U64(RdtscThreshold), testResults.RdtscCalculated))
    /\ Occurred("TimestampResult") =>
          (testResults.TimestampFail
              <=> Less(U64(TimestampThreshold), testResults.TimestampCalculated))
    /\ Occurred("AperfResult") =>
          (testResults.AperfFail
              <=> Less(testResults.AperfCalculated, U64(AperfThreshold)))

\* The run whose ratios are the two thresholds themselves.
C4_Witness ==
    /\ pc = "Returned"
    /\ testResults.RdtscCalculated = U64(RdtscThreshold)
    /\ ~testResults.RdtscFail
    /\ testResults.TimestampCalculated = U64(TimestampThreshold)
    /\ ~testResults.TimestampFail

ExactTotal(p) ==
    Add(Mul(Iterations, Widen(trace.cpuid[p])),
        IF trace.pauseProbe = p THEN Widen(trace.pauseTicks) ELSE Wide(0))

ExactProduct(p) == Mul(Multiplier, ExactTotal(p))

ExactRatio(p) == Div(ExactProduct(p), Widen(calibration))

\* The low 64 bits of a 96 bit value.
Low64(w) == [k \in 1..U64Limbs |-> w[k]]

\* Ratio probe p has just stored its result; the counter has not wrapped.
RatioStored(p) ==
    /\ pc = <<"TimestampTiming", "AperfTiming">>[p]
    /\ ~tscWrapped

StoredRatio(p) ==
    <<testResults.RdtscCalculated, testResults.TimestampCalculated>>[p]

\* C6, as the specification states it: on a counter that does not wrap and
\* with a calibration delta that is not zero, total is the sum of the 25000
\* per-iteration deltas and the stored value is the quotient of 100000 times
\* that sum by the calibration delta, rounded down, nothing having wrapped
\* at 64 bits.
C6_ExactQuotient ==
    \A p \in 1..2 :
        RatioStored(p) =>
            /\ i = Iterations
            /\ Widen(total) = ExactTotal(p)
            /\ Widen(StoredRatio(p)) = ExactRatio(p)

\* C6, amended: on a counter that does not wrap and with a calibration delta
\* that is not zero, total is the sum of the 25000 per-iteration deltas; the
\* stored value is the quotient, rounded down, of 100000 times that sum by
\* the calibration delta as long as the product is below 2^64, that is total
\* at most 184467440737095; above that the product wraps and the stored
\* value is the quotient of the product modulo 2^64.
C6_ExactQuotientBelowWrap ==
    \A p \in 1..2 :
        RatioStored(p) =>
            /\ i = Iterations
            /\ Widen(total) = ExactTotal(p)
            /\ FitsU64(ExactProduct(p)) <=> ~Less(Dec(<<184, 467440, 737095>>), total)
            /\ StoredRatio(p) = Div(Low64(ExactProduct(p)), calibration)
            /\ FitsU64(ExactProduct(p)) => Widen(StoredRatio(p)) = ExactRatio(p)

\* The largest total whose product does not wrap: 184467440737095 ticks in
\* a second of 2500000000 give 7378697629.
C6_Witness ==
    /\ RatioStored(1)
    /\ total = Dec(<<184, 467440, 737095>>)
    /\ calibration = Dec(<<2500, 0>>)
    /\ testResults.RdtscCalculated = Dec(<<7378, 697629>>)

(***************************************************************************)
(* C8.                                                                     *)
(***************************************************************************)
\* C8, as the specification states it: IA32_APERF read as 0 and then as
\* 15000 stores the value 15000, not failed.
C8_StoresDelta ==
    aperfReads = <<U64(0), U64(15000)>> =>
        /\ testResults.AperfCalculated = U64(15000)
        /\ ~testResults.AperfFail

\* C8, amended: IA32_APERF read as 0 and then as 15000 stores the value
\* 15000 * 2^32 = 64424509440000, not failed.
C8_StoresShiftedDelta ==
    aperfReads = <<U64(0), U64(15000)>> =>
        /\ testResults.AperfCalculated = Dec(<<64, 424509, 440000>>)
        /\ ~testResults.AperfFail

\* The two reads have been made and the result is the one in the log.
C8_Witness ==
    /\ pc = "Returned"
    /\ aperfReads = <<U64(0), U64(15000)>>
    /\ log[Len(log)].args = <<Dec(<<64, 424509, 440000>>), "ok">>

(***************************************************************************)
(* C10.                                                                    *)
(***************************************************************************)
\* C10: the value AperfTiming stores is the difference of the two raw reads
\* modulo 2^32, times 2^32: a multiple of 2^32, zero or at least 2^32, so
\* that the probe is failed exactly when the low 32 bits of the two reads
\* are equal and no value that is not zero is ever below the threshold.
C10_ShiftedDelta ==
    Occurred("AperfResult") =>
        LET first  == aperfReads[1]
            second == aperfReads[2]
            delta  == Sub(second, first)
            stored == testResults.AperfCalculated
        IN  /\ stored = <<0, 0, delta[1], delta[2]>>
            /\ IsZero(stored) \/ ~Less(stored, Dec(<<4294, 967296>>))
            /\ testResults.AperfFail <=> (first[1] = second[1] /\ first[2] = second[2])
            /\ testResults.AperfFail <=> IsZero(stored)

\* The two reads differ, by 2^32, and the probe is failed.
C10_Witness ==
    /\ Occurred("AperfResult")
    /\ aperfReads[1] = Dec(<<4294, 967000>>)
    /\ aperfReads[2] = Dec(<<8589, 934296>>)
    /\ testResults.AperfFail

=============================================================================
